---- MODULE Spec2Model ----
(***************************************************************************)
(* Model of the two Oralable demo-data scripts:                            *)
(*   generate_demo_csv.py              (generate_demo_csv)                 *)
(*   generate_professional_demo_csv.py (generate_session,                  *)
(*                                      generate_professional_demo)        *)
(*                                                                         *)
(* Number representation (TLA+ has integers only):                         *)
(*   sample time t = i / sample_rate   in centiseconds   (t = 5 * i)       *)
(*   datetime values                   [s, us]: seconds since an epoch and *)
(*                                     microseconds 0..999999              *)
(*   timestamp_str "....SSS"           in milliseconds (the [:-3] cut)     *)
(*   PPG terms before int()            in tenths of a count                *)
(*   Gaussian draws z of random.gauss  in hundredths of a sigma            *)
(*   temperature before formatting     in 1e-4 degrees, written in 1e-2    *)
(*   spo2 before formatting            in 1e-3 percent, written in 1e-1    *)
(*   math.sin                          in thousandths (Bhaskara's rational *)
(*                                     approximation, |error| < 0.002)     *)
(***************************************************************************)
EXTENDS Integers, Sequences, FiniteSets, TLC

VARIABLES pc,        \* which function is executing
          args,      \* the arguments / per-call values of the running function
          i,         \* the loop index of `for i in range(total_samples)`
          nrows,     \* len(rows)
          row,       \* the row appended by the last iteration
          loc,       \* locals of the last iteration that the row does not carry
          out,       \* the CSV file written by generate_demo_csv
          files      \* the CSV files written by generate_professional_demo

vars == <<pc, args, i, nrows, row, loc, out, files>>

---------------------------------------------------------------------------
(* Bounds of the model *)

MaxDurationSeconds == 16
MaxDurationMinutes == 1
MaxSessionId == 3
MaxProbeRow == 2

(* Values of datetime.now(), five days after the epoch: one on a whole     *)
(* second, one with a sub-millisecond part just before a second boundary.  *)
StartTimes == {[s |-> 432000, us |-> 0], [s |-> 432000, us |-> 999999]}

---------------------------------------------------------------------------
(* Library arithmetic *)

\* int(x): truncation toward zero of x / s
Trunc(x, s) == IF x >= 0 THEN x \div s ELSE -((-x) \div s)

\* format(x, ".nf"): x / s rounded to the nearest unit, ties away from zero
RoundDiv(x, s) == IF x >= 0 THEN (2 * x + s) \div (2 * s)
                  ELSE -((2 * (-x) + s) \div (2 * s))

Min(a, b) == IF a <= b THEN a ELSE b
Max(a, b) == IF a >= b THEN a ELSE b

\* 1000 * sin of an angle of x tenths of a degree, 0 <= x <= 1800
SinHalfTurn(x) == (400 * x * (1800 - x)) \div ((4050000 - x * (1800 - x)) \div 10)

\* 1000 * math.sin of an angle of a tenths of a degree, a >= 0
Sin(a) ==
    LET r == a % 3600
    IN  IF r <= 1800 THEN SinHalfTurn(r) ELSE -SinHalfTurn(r - 1800)

\* radians to tenths of a degree: 1 rad = 1800/pi, pi ~ 355/113.
\* RadToDeci(n, d) is the angle n/d rad.
RadToDeci(n, d) == (n * 1800 * 113) \div (d * 355)

(* random.gauss(mu, sigma) returns mu + z * sigma with                     *)
(* z = cos(2 pi u1) * sqrt(-2 ln(1 - u2)), u2 in [0, 1) a 53-bit fraction, *)
(* so |z| <= sqrt(106 ln 2) < 8.58.  GaussZMax is that bound in            *)
(* hundredths of a sigma.                                                  *)
GaussZMax == 857

\* the draws of z explored for a field that a property reads: both extremes
GaussTails == {-GaussZMax, GaussZMax}
\* the one draw of z explored for a field that no property reads
GaussMean == {0}

\* random.uniform(a, b): the two ends of the interval
Uniform(a, b) == {a, b}

\* Faulty variant of Timedelta: i // sample_rate in place of i / sample_rate
TimedeltaFloorDiv(idx, sample_rate) == [s |-> idx \div sample_rate, us |-> 0]

\* timedelta(seconds=i / sample_rate), exact to the microsecond
Timedelta(idx, sample_rate) ==
    [s |-> idx \div sample_rate,
     us |-> ((idx % sample_rate) * 1000000) \div sample_rate]

\* timedelta(days=n)
Days(n) == [s |-> 86400 * n, us |-> 0]

\* datetime + timedelta and datetime - timedelta
DtAdd(dt, td) ==
    [s |-> dt.s + td.s + (dt.us + td.us) \div 1000000,
     us |-> (dt.us + td.us) % 1000000]

DtSub(dt, td) ==
    [s |-> dt.s - td.s + (dt.us - td.us) \div 1000000,
     us |-> (dt.us - td.us) % 1000000]

DtLeq(a, b) == a.s < b.s \/ (a.s = b.s /\ a.us <= b.us)

\* timestamp.strftime("%Y-%m-%d %H:%M:%S.%f")[:-3]: the last three of the six
\* fraction digits are cut, leaving whole milliseconds.  The fixed-width text
\* is represented by the number of milliseconds it denotes.
Strftime(dt) == 1000 * dt.s + dt.us \div 1000

NoRow == [timestamp |-> -1]
NoLoc == [clench_amplitude |-> 0, hits |-> 0, phase |-> "none", window |-> -1,
          motion |-> FALSE, timestamp |-> [s |-> -1, us |-> 0]]
NoOut == [header |-> <<>>, nrows |-> -1]

fieldnames == <<"timestamp", "ppg_ir", "ppg_red", "ppg_green",
                "accel_x", "accel_y", "accel_z", "temperature",
                "heart_rate", "spo2", "battery", "device_id">>

---------------------------------------------------------------------------
(* The clench envelope, shared shape of both generators *)

\* range(0, stop, step) of window starts, in seconds
WindowStarts(stop, step) == {s \in 0..(stop - 1) : s % step = 0}

\* The window starts whose test `clench_start <= t < clench_start +
\* clench_duration` can succeed for some draw of clench_duration <= maxdur.
\* For every other start the test fails whatever is drawn, so only these
\* starts get a draw in the model.  t and maxdur in centiseconds.
Candidates(starts, t, maxdur) ==
    {s \in starts : 100 * s <= t /\ t < 100 * s + maxdur}

\* Faulty variant of Envelope: the ramp down scales by progress in place of
\* 1 - progress
EnvelopeRampDownByProgress(s, off, dur, u, num, den) ==
    IF off * den < num * dur
    THEN [clench_amplitude |-> (10 * u * off * den) \div (num * dur),
          phase |-> "up", window |-> s]
    ELSE IF off * den > (den - num) * dur
    THEN [clench_amplitude |-> (10 * u * off * den) \div (num * dur),
          phase |-> "down", window |-> s]
    ELSE [clench_amplitude |-> 10 * u, phase |-> "plateau", window |-> s]

\* the body of `if clench_start <= t < clench_start + clench_duration:` for
\* the window at `s`, with off = t - clench_start: the ramp up while
\* progress < num/den, the ramp down while progress > 1 - num/den, else the
\* plateau.  u is the draw of random.uniform for the amplitude.  The
\* amplitude is in tenths of a count.
Envelope(s, off, dur, u, num, den) ==
    IF off * den < num * dur
    THEN [clench_amplitude |-> (10 * u * off * den) \div (num * dur),
          phase |-> "up", window |-> s]
    ELSE IF off * den > (den - num) * dur
    THEN [clench_amplitude |-> (10 * u * (dur - off) * den) \div (num * dur),
          phase |-> "down", window |-> s]
    ELSE [clench_amplitude |-> 10 * u, phase |-> "plateau", window |-> s]

\* `clench_amplitude = 0` followed by the loop over the window starts: every
\* start whose test succeeds assigns clench_amplitude, so the last one in
\* range order decides it.  durs[s] is the duration drawn for start s.
Hits(starts, t, maxdur, durs) ==
    {s \in Candidates(starts, t, maxdur) : t < 100 * s + durs[s]}

ClenchLoop(starts, t, maxdur, durs, u, num, den) ==
    LET hit == Hits(starts, t, maxdur, durs)
        last == CHOOSE s \in hit : \A r \in hit : r <= s
    IN  IF hit = {}
        THEN [clench_amplitude |-> 0, phase |-> "none", window |-> -1, hits |-> 0]
        ELSE [hits |-> Cardinality(hit)]
             @@ Envelope(last, t - 100 * last, durs[last], u, num, den)

---------------------------------------------------------------------------
(* generate_demo_csv: one iteration of `for i in range(total_samples)` *)

DemoSampleRate == 20
DemoClenchPeriod == 15
DemoClenchDurations == Uniform(200, 400)
DemoClenchAmplitudes == Uniform(10000, 20000)
DemoPpgMax == 262143
DemoMotionThreshold == 5000
DemoBattery == 85

\* Faulty variant of DemoTotalSamples: one sample too many
DemoTotalSamplesInclusive(duration_seconds) == duration_seconds * DemoSampleRate + 1

\* total_samples = duration_seconds * sample_rate
DemoTotalSamples(duration_seconds) == duration_seconds * DemoSampleRate

DemoStarts(duration_seconds) == WindowStarts(duration_seconds, DemoClenchPeriod)

DemoClench(duration_seconds, idx, durs, amp) ==
    ClenchLoop(DemoStarts(duration_seconds), 5 * idx, 400, durs, amp, 1, 5)

\* `if clench_amplitude > 5000:`
DemoMotion(clench) == clench.clench_amplitude > 10 * DemoMotionThreshold

\* The random draws of one iteration, in program order.  A draw the
\* iteration does not make (the amplitude when no window test succeeds, the
\* extra accelerometer noise when the threshold test fails) is 0.  The
\* heart-rate jitter random.uniform(-2, 2), in thousandths of a beat, is
\* explored at its upper end only: no property reads heart_rate.
DemoDraws(duration_seconds, idx) ==
    UNION { UNION {
        [hr    : {2000},
         durs  : {durs},
         amp   : {amp},
         noise : GaussTails,
         red   : GaussMean, green : GaussMean,
         bx    : GaussMean, by : GaussMean, bz : GaussMean,
         ex    : IF DemoMotion(DemoClench(duration_seconds, idx, durs, amp))
                 THEN GaussTails ELSE {0},
         ey    : IF DemoMotion(DemoClench(duration_seconds, idx, durs, amp))
                 THEN GaussMean ELSE {0},
         temp  : GaussMean, hrd : GaussMean,
         spo2  : GaussTails]
        : amp \in IF Hits(DemoStarts(duration_seconds), 5 * idx, 400, durs) = {}
                  THEN {0} ELSE DemoClenchAmplitudes }
        : durs \in [Candidates(DemoStarts(duration_seconds), 5 * idx, 400)
                      -> DemoClenchDurations] }

\* max(0, min(262143, ppg_ir))
DemoClamp(x) == Max(0, Min(DemoPpgMax, x))

\* baseline + cardiac + breathing + clench_amplitude + noise, tenths of a count
DemoPpgSum(idx, d, clench) ==
    (500000 + 20 * Sin(RadToDeci(idx, 600)))
    + 15 * Sin((3 * (70000 + d.hr) * idx) \div 1000)
    + 8 * Sin(45 * idx)
    + clench.clench_amplitude
    + 30 * d.noise

DemoPpgIr(idx, d, clench) == DemoClamp(Trunc(DemoPpgSum(idx, d, clench), 10))

\* accel_base_x (or _y) after the optional `+= random.gauss(0, 0.05)`, times
\* 16384, truncated: base and extra are draws of z
DemoAccelXY(base, extra, motion) ==
    Trunc((base + (IF motion THEN 5 * extra ELSE 0)) * 16384, 10000)

DemoAccelZ(base) == Trunc((10000 + base) * 16384, 10000)

\* max(95, min(100, 98 + random.gauss(0, 0.5))) formatted with .1f
DemoSpo2(z) == RoundDiv(Max(95000, Min(100000, 98000 + 5 * z)), 100)

DemoRow(start_time, duration_seconds, idx, d) ==
    LET clench == DemoClench(duration_seconds, idx, d.durs, d.amp)
        ppg_ir == DemoPpgIr(idx, d, clench)
        motion == DemoMotion(clench)
    IN  [timestamp   |-> Strftime(DtAdd(start_time, Timedelta(idx, DemoSampleRate))),
         ppg_ir      |-> ppg_ir,
         ppg_red     |-> Trunc(7 * ppg_ir + 20 * d.red, 10),
         ppg_green   |-> Trunc(5 * ppg_ir + 15 * d.green, 10),
         accel_x     |-> DemoAccelXY(d.bx, d.ex, motion),
         accel_y     |-> DemoAccelXY(d.by, d.ey, motion),
         accel_z     |-> DemoAccelZ(d.bz),
         temperature |-> RoundDiv(365000 + 3 * Sin(RadToDeci(idx, 1200)) + 5 * d.temp, 100),
         heart_rate  |-> Trunc(70000 + d.hr + 10 * d.hrd, 1000),
         spo2        |-> DemoSpo2(d.spo2),
         battery     |-> DemoBattery,
         device_id   |-> "DEMO-ORALABLE-001"]

\* the locals of the iteration that the properties read
DemoLoc(start_time, duration_seconds, idx, d) ==
    LET clench == DemoClench(duration_seconds, idx, d.durs, d.amp)
    IN  clench @@ [motion    |-> DemoMotion(clench),
                   timestamp |-> DtAdd(start_time, Timedelta(idx, DemoSampleRate))]

---------------------------------------------------------------------------
(* generate_session: one iteration of `for i in range(total_samples)` *)

SessionSampleRate == 20
SessionClenchDurations == Uniform(150, 350)
SessionClenchAmplitudes == Uniform(8000, 18000)

SessionTotalSamples(duration_minutes) == duration_minutes * 60 * SessionSampleRate

\* Faulty variant of ClenchFrequency: the period shrinks with the session id
ClenchFrequencyShrinking(session_id) == 12 - session_id * 3

\* clench_frequency = 12 + session_id * 3
ClenchFrequency(session_id) == 12 + session_id * 3

SessionStarts(session_id, duration_minutes) ==
    WindowStarts(duration_minutes * 60, ClenchFrequency(session_id))

SessionClench(session_id, duration_minutes, idx, durs, amp) ==
    ClenchLoop(SessionStarts(session_id, duration_minutes), 5 * idx, 350,
               durs, amp, 3, 20)

\* The random draws of one iteration, in program order.  The amplitude is
\* drawn only when a window test succeeds (0 otherwise).  random.randint(-3, 3)
\* for heart_rate is explored at its upper end only: no property reads it.
SessionDraws(session_id, duration_minutes, idx) ==
    UNION { UNION {
        [durs  : {durs},
         amp   : {amp},
         noise : GaussTails,
         ax    : GaussMean, ay : GaussMean, az : GaussMean,
         temp  : GaussMean,
         hr    : {3},
         spo2  : GaussTails]
        : amp \in IF Hits(SessionStarts(session_id, duration_minutes), 5 * idx,
                          350, durs) = {}
                  THEN {0} ELSE SessionClenchAmplitudes }
        : durs \in [Candidates(SessionStarts(session_id, duration_minutes),
                               5 * idx, 350) -> SessionClenchDurations] }

\* Faulty variant of SessionPpgSum: the baseline term is left out
SessionPpgSumNoBaseline(idx, d, clench) ==
    12 * Sin(216 * idx)
    + 6 * Sin(42 * idx)
    + clench.clench_amplitude
    + 25 * d.noise

\* baseline + cardiac + breathing + clench_amplitude + noise, tenths of a count
SessionPpgSum(idx, d, clench) ==
    (480000 + 40 * Sin(RadToDeci(idx, 900)))
    + 12 * Sin(216 * idx)
    + 6 * Sin(42 * idx)
    + clench.clench_amplitude
    + 25 * d.noise

\* ppg_ir = int(...): no clamp follows
SessionPpgIr(idx, d, clench) == Trunc(SessionPpgSum(idx, d, clench), 10)

\* f"{98.0 + random.gauss(0, 0.4):.1f}"
SessionSpo2(z) == RoundDiv(98000 + 4 * z, 100)

\* Faulty variant of SessionBattery: session ids taken as zero-based
SessionBatteryZeroBased(session_id) == 90 - (session_id - 1) * 5

\* 'battery': 90 - session_id * 5
SessionBattery(session_id) == 90 - session_id * 5

SessionRow(session_id, session_date, duration_minutes, idx, d) ==
    LET clench == SessionClench(session_id, duration_minutes, idx, d.durs, d.amp)
        ppg_ir == SessionPpgIr(idx, d, clench)
    IN  [timestamp   |-> Strftime(DtAdd(session_date, Timedelta(idx, SessionSampleRate))),
         ppg_ir      |-> ppg_ir,
         ppg_red     |-> Trunc(7 * ppg_ir, 10),
         ppg_green   |-> Trunc(5 * ppg_ir, 10),
         accel_x     |-> Trunc(150 * d.ax, 100),
         accel_y     |-> Trunc(150 * d.ay, 100),
         accel_z     |-> Trunc(1638400 + 150 * d.az, 100),
         temperature |-> RoundDiv(364000 + 2 * Sin(RadToDeci(idx, 2400)) + 3 * d.temp, 100),
         heart_rate  |-> 72 + d.hr,
         spo2        |-> SessionSpo2(d.spo2),
         battery     |-> SessionBattery(session_id),
         device_id   |-> "ORALABLE-DEMO-DEVICE"]

\* the accelerometer lines draw one gauss per axis and never test
\* clench_amplitude: no extra noise is injected
SessionMotion(clench) == FALSE

\* the locals of the iteration that the properties read
SessionLoc(session_id, session_date, duration_minutes, idx, d) ==
    LET clench == SessionClench(session_id, duration_minutes, idx, d.durs, d.amp)
    IN  clench @@ [motion    |-> SessionMotion(clench),
                   timestamp |-> DtAdd(session_date, Timedelta(idx, SessionSampleRate))]

---------------------------------------------------------------------------
(* generate_demo_csv(output_path, duration_seconds) *)

Init ==
    /\ pc = "idle"
    /\ args = [fn |-> "none"]
    /\ i = 0
    /\ nrows = 0
    /\ row = NoRow
    /\ loc = NoLoc
    /\ out = NoOut
    /\ files = <<>>

\* the call, up to the loop: total_samples and start_time = datetime.now()
CallGenerateDemoCsv ==
    /\ pc = "idle"
    /\ \E duration_seconds \in 0..MaxDurationSeconds, now \in StartTimes :
          args' = [fn |-> "generate_demo_csv",
                   duration_seconds |-> duration_seconds,
                   total_samples |-> DemoTotalSamples(duration_seconds),
                   start_time |-> now]
    /\ pc' = "demo_loop"
    /\ i' = 0
    /\ nrows' = 0
    /\ UNCHANGED <<row, loc, out, files>>

\* one iteration of the loop, ending with rows.append
DemoIteration ==
    /\ pc = "demo_loop"
    /\ i < args.total_samples
    /\ \E d \in DemoDraws(args.duration_seconds, i) :
          /\ row' = DemoRow(args.start_time, args.duration_seconds, i, d)
          /\ loc' = DemoLoc(args.start_time, args.duration_seconds, i, d)
    /\ nrows' = nrows + 1
    /\ i' = i + 1
    /\ UNCHANGED <<pc, args, out, files>>

\* the range is exhausted: the file is written, header row then the rows
DemoWrite ==
    /\ pc = "demo_loop"
    /\ i >= args.total_samples
    /\ out' = [header |-> fieldnames, nrows |-> nrows]
    /\ pc' = "done"
    /\ UNCHANGED <<args, i, nrows, row, loc, files>>

---------------------------------------------------------------------------
(* generate_session(session_id, session_date, duration_minutes) *)

CallGenerateSession ==
    /\ pc = "idle"
    /\ \E session_id \in 1..MaxSessionId,
          session_date \in StartTimes,
          duration_minutes \in 0..MaxDurationMinutes :
          args' = [fn |-> "generate_session",
                   session_id |-> session_id,
                   session_date |-> session_date,
                   duration_minutes |-> duration_minutes,
                   total_samples |-> SessionTotalSamples(duration_minutes)]
    /\ pc' = "session_loop"
    /\ i' = 0
    /\ nrows' = 0
    /\ UNCHANGED <<row, loc, out, files>>

SessionIteration ==
    /\ pc = "session_loop"
    /\ i < args.total_samples
    /\ \E d \in SessionDraws(args.session_id, args.duration_minutes, i) :
          /\ row' = SessionRow(args.session_id, args.session_date,
                               args.duration_minutes, i, d)
          /\ loc' = SessionLoc(args.session_id, args.session_date,
                               args.duration_minutes, i, d)
    /\ nrows' = nrows + 1
    /\ i' = i + 1
    /\ UNCHANGED <<pc, args, out, files>>

\* return rows
SessionReturn ==
    /\ pc = "session_loop"
    /\ i >= args.total_samples
    /\ pc' = "done"
    /\ UNCHANGED <<args, i, nrows, row, loc, out, files>>

---------------------------------------------------------------------------
(* generate_professional_demo()                                            *)
(*                                                                         *)
(* A list of rows is kept as its length and the row at one observed        *)
(* position: args.probe names a session of the list `sessions` and a row   *)
(* index in it.  Two lists are equal iff their lengths agree and their     *)
(* rows agree at every position, and the position is chosen freely.        *)

\* f"demo_participant_session_{session['id']}.csv"
SessionFilename(id) == "demo_participant_session_" \o ToString(id) \o ".csv"

AllSessionsFilename == "demo_participant_all_sessions.csv"

\* rows = generate_session(session["id"], session["date"], session["duration"])
\* seen at the observed position: idx is the observed row index, or -1 when
\* the observed position is not in this session
GenerateSession(session, idx, d) ==
    [nrows  |-> SessionTotalSamples(session.duration),
     sample |-> IF idx >= 0 /\ idx < SessionTotalSamples(session.duration)
                THEN SessionRow(session.id, session.date, session.duration, idx, d)
                ELSE NoRow]

\* the draws of the call that the observed row depends on
GenerateSessionDraws(session, idx) ==
    IF idx >= 0 /\ idx < SessionTotalSamples(session.duration)
    THEN SessionDraws(session.id, session.duration, idx)
    ELSE {[durs |-> <<>>]}

ProbeIndex(k) == IF args.probe.session = k THEN args.probe.index ELSE -1

\* the list `sessions` and the field names; each date is its own call of
\* datetime.now(), none earlier than the one before
CallGenerateProfessionalDemo ==
    /\ pc = "idle"
    /\ \E n1 \in StartTimes, n2 \in StartTimes, n3 \in StartTimes,
          ps \in 1..3, pi \in 0..MaxProbeRow :
          /\ DtLeq(n1, n2) /\ DtLeq(n2, n3)
          /\ args' = [fn |-> "generate_professional_demo",
                      sessions |-> << [id |-> 1, date |-> DtSub(n1, Days(5)), duration |-> 8],
                                      [id |-> 2, date |-> DtSub(n2, Days(3)), duration |-> 10],
                                      [id |-> 3, date |-> DtSub(n3, Days(1)), duration |-> 12] >>,
                      k |-> 1,
                      all_rows |-> [nrows |-> 0, sample |-> NoRow],
                      probe |-> [session |-> ps, index |-> pi]]
    /\ pc' = "pro_sessions"
    /\ UNCHANGED <<i, nrows, row, loc, out, files>>

\* one iteration of the first `for session in sessions:`: generate the
\* session and write its file, header row then the rows
ProWriteSession ==
    /\ pc = "pro_sessions"
    /\ args.k <= Len(args.sessions)
    /\ LET session == args.sessions[args.k]
       IN  \E d \in GenerateSessionDraws(session, ProbeIndex(args.k)) :
              LET rows == GenerateSession(session, ProbeIndex(args.k), d)
              IN  files' = (SessionFilename(session.id) :>
                              [header |-> fieldnames, nrows |-> rows.nrows,
                               sample |-> rows.sample]) @@ files
    /\ args' = [args EXCEPT !.k = args.k + 1]
    /\ UNCHANGED <<pc, i, nrows, row, loc, out>>

\* the first loop is exhausted: all_rows = []
ProSessionsDone ==
    /\ pc = "pro_sessions"
    /\ args.k > Len(args.sessions)
    /\ args' = [args EXCEPT !.k = 1, !.all_rows = [nrows |-> 0, sample |-> NoRow]]
    /\ pc' = "pro_all"
    /\ UNCHANGED <<i, nrows, row, loc, out, files>>

\* one iteration of the second `for session in sessions:`: generate the
\* session again and all_rows.extend(rows)
ProExtendAll ==
    /\ pc = "pro_all"
    /\ args.k <= Len(args.sessions)
    /\ LET session == args.sessions[args.k]
       IN  \E d \in GenerateSessionDraws(session, ProbeIndex(args.k)) :
              LET rows == GenerateSession(session, ProbeIndex(args.k), d)
              IN  args' = [args EXCEPT
                             !.k = args.k + 1,
                             !.all_rows = [nrows  |-> args.all_rows.nrows + rows.nrows,
                                           sample |-> IF ProbeIndex(args.k) >= 0
                                                      THEN rows.sample
                                                      ELSE args.all_rows.sample]]
    /\ UNCHANGED <<pc, i, nrows, row, loc, out, files>>

\* the second loop is exhausted: the combined file is written
ProWriteAll ==
    /\ pc = "pro_all"
    /\ args.k > Len(args.sessions)
    /\ files' = (AllSessionsFilename :>
                    [header |-> fieldnames, nrows |-> args.all_rows.nrows,
                     sample |-> args.all_rows.sample]) @@ files
    /\ pc' = "done"
    /\ UNCHANGED <<args, i, nrows, row, loc, out>>

Next ==
    \/ CallGenerateDemoCsv
    \/ DemoIteration
    \/ DemoWrite
    \/ CallGenerateSession
    \/ SessionIteration
    \/ SessionReturn
    \/ CallGenerateProfessionalDemo
    \/ ProWriteSession
    \/ ProSessionsDone
    \/ ProExtendAll
    \/ ProWriteAll

Spec == Init /\ [][Next]_vars

---------------------------------------------------------------------------
(* Properties *)

InDemo == args.fn = "generate_demo_csv"
InSession == args.fn = "generate_session"
InPro == args.fn = "generate_professional_demo"

\* some row has been appended by generate_demo_csv or generate_session; row
\* and loc are those of sample nrows - 1
HasRow == (InDemo \/ InSession) /\ nrows > 0

\* the start time of the running generator
StartOf == IF InDemo THEN args.start_time ELSE args.session_date

\* the window period of the running generator, in seconds
PeriodOf == IF InDemo THEN DemoClenchPeriod ELSE ClenchFrequency(args.session_id)

\* C1: both generators produce exactly duration x 20 samples: during the loop
\* the list holds one row per finished iteration, and at the end
\* generate_demo_csv has appended (and written) duration_seconds * 20 rows
\* and generate_session returns duration_minutes * 60 * 20 rows.
SampleCount ==
    /\ (InDemo \/ InSession) => nrows = i
    /\ (InDemo /\ pc = "done") =>
          /\ nrows = args.duration_seconds * 20
          /\ out.nrows = args.duration_seconds * 20
    /\ (InSession /\ pc = "done") => nrows = args.duration_minutes * 60 * 20

SampleCountWitness ==
    /\ InDemo /\ pc = "done"
    /\ args.duration_seconds = MaxDurationSeconds
    /\ out.nrows = 20 * MaxDurationSeconds
    /\ out.nrows > 0

\* C2: sample k of a session carries the time start + k * 50 ms, and its
\* written timestamp (whole milliseconds) is the written form of the start
\* plus k * 50 ms: the written timestamps are strictly increasing, spaced by
\* exactly 50 ms, the first is the start and the last of an n-second session
\* is the start plus n seconds minus 50 ms.
TimestampSpacing ==
    HasRow =>
        /\ (loc.timestamp.s - StartOf.s) * 1000000 + (loc.timestamp.us - StartOf.us)
              = 50000 * (nrows - 1)
        /\ row.timestamp = Strftime(StartOf) + 50 * (nrows - 1)

TimestampSpacingWitness ==
    /\ InDemo /\ pc = "done"
    /\ args.duration_seconds = MaxDurationSeconds
    /\ args.start_time = [s |-> 432000, us |-> 999999]
    /\ row.timestamp = 432000999 + 1000 * MaxDurationSeconds - 50

\* C3: every sample of either generator has ppg_ir within [0, 262143].
PpgIrRange == HasRow => (0 <= row.ppg_ir /\ row.ppg_ir <= 262143)

PpgIrRangeWitness ==
    /\ InSession /\ HasRow
    /\ loc.phase = "plateau" /\ loc.clench_amplitude = 180000
    /\ row.ppg_ir > 60000

\* C4: every sample of either generator has spo2 within [95.0, 100.0]
\* (written in tenths: 950..1000).
Spo2Range == HasRow => (950 <= row.spo2 /\ row.spo2 <= 1000)

\* C5: when generate_professional_demo has finished, the combined file holds
\* the rows of the three session files in order: as many rows as the three
\* together, and at every position the row of the session file.
AllSessionsIsConcatenation ==
    (InPro /\ pc = "done") =>
        /\ files[AllSessionsFilename].nrows
              = files[SessionFilename(1)].nrows + files[SessionFilename(2)].nrows
                + files[SessionFilename(3)].nrows
        /\ files[AllSessionsFilename].sample
              = files[SessionFilename(args.probe.session)].sample

\* C6: every sample of session session_id carries battery 90 - 5 * session_id
\* (85, 80, 75 for sessions 1, 2, 3), and every sample of generate_demo_csv
\* carries the same constant battery.
BatteryConstant ==
    /\ HasRow =>
          /\ InSession => row.battery = 90 - 5 * args.session_id
          /\ (InSession /\ args.session_id \in {1, 2, 3}) =>
                row.battery = <<85, 80, 75>>[args.session_id]
          /\ InDemo => row.battery = 85
    /\ \A id \in 1..3 :
          (InPro /\ args.probe.session = id /\ SessionFilename(id) \in DOMAIN files) =>
             files[SessionFilename(id)].sample.battery = <<85, 80, 75>>[id]

BatteryConstantWitness ==
    /\ InSession /\ pc = "done"
    /\ args.session_id = 3 /\ args.duration_minutes = 1
    /\ nrows = 1200 /\ row.battery = 75

\* C7: at every sample at most one window start passes the test
\* clench_start <= t < clench_start + clench_duration.
AtMostOneClench == HasRow => loc.hits <= 1

AtMostOneClenchWitness ==
    /\ InSession /\ HasRow
    /\ args.session_id = 3
    /\ loc.hits = 1 /\ loc.window = 21

\* C8: the clench amplitude is 0 at every sample for which no window test
\* passes, in particular whenever the offset from the preceding window start
\* is at least the maximum clench duration; at every other sample it lies
\* between 0 and the maximum plateau amplitude (tenths of a count).
EnvelopeRange ==
    HasRow =>
        /\ loc.hits = 0 => loc.clench_amplitude = 0
        /\ (5 * (nrows - 1)) % (100 * PeriodOf) >= (IF InDemo THEN 400 ELSE 350)
              => (loc.hits = 0 /\ loc.clench_amplitude = 0)
        /\ 0 <= loc.clench_amplitude
        /\ loc.clench_amplitude <= (IF InDemo THEN 200000 ELSE 180000)

\* t = 10 s between the windows at 0 s and 15 s
EnvelopeRangeWitness ==
    /\ InDemo /\ nrows = 201
    /\ loc.hits = 0 /\ loc.clench_amplitude = 0

PhaseRank(phase) ==
    CASE phase = "up" -> 1 [] phase = "plateau" -> 2 [] phase = "down" -> 3
      [] OTHER -> 4

\* C9: each window holds one clench event whose single duration and single
\* plateau amplitude apply to all its samples.  Between two consecutive
\* samples of one window: the later has an active clench only if the earlier
\* has (one contiguous run from the window start), the envelope moves on in
\* the order ramp up, plateau, ramp down, none, and two plateau samples have
\* the same amplitude.
OneClenchPerWindow ==
    [][ ( /\ HasRow
          /\ nrows' = nrows + 1
          /\ (5 * nrows) % (100 * PeriodOf) # 0 )
        => /\ loc'.hits > 0 => loc.hits > 0
           /\ PhaseRank(loc'.phase) >= PhaseRank(loc.phase)
           /\ (loc.phase = "plateau" /\ loc'.phase = "plateau")
                 => loc'.clench_amplitude = loc.clench_amplitude ]_vars

\* C10: in both generators a sample gets the extra noise on accel_x and
\* accel_y exactly when its clench amplitude exceeds 5000.
MotionArtifact ==
    HasRow => (loc.motion <=> loc.clench_amplitude > 10 * 5000)

====
